---- MODULE Spec2Model ----
(***************************************************************************)
(* A model of tomstitt/heatmap: the corpus cache update of draw.py, the    *)
(* overlay cache lookup of draw.plot, osm.parse_osm, osm.osm_id and the    *)
(* cluster branch of draw.py.                                              *)
(*                                                                         *)
(* Five specifications share the module, one per part of the program:      *)
(*   Spec         runs of draw.py against a directory of track files       *)
(*   SpecOverlay  overlay requests of draw.plot (lines 70-88)              *)
(*   SpecParse    osm.parse_osm on bounded snapshots                       *)
(*   SpecCluster  reduction and the cluster branch of draw.py              *)
(*   SpecId       osm.osm_id on bounded bounding boxes                     *)
(* The variables of the parts a specification does not use keep their      *)
(* initial values.                                                         *)
(***************************************************************************)
EXTENDS Integers, Sequences, FiniteSets, TLC

VARIABLES
    \* ---- draw.py, corpus cache (lines 185-203) and load_gpx
    gpx_dir,      \* the names of the *.gpx files in args.gpx_dir
    cache,        \* the content of cache.pkl (NoCache: the file is absent)
    pc,           \* the position of the current run of draw.py
    files,        \* glob result of the run (line 186), as a set of names
    data,         \* the in-memory corpus of the run
    new_files,    \* line 192: the names still to be parsed by load_gpx
    batch,        \* the names handed to load_gpx by this run
    parsed,       \* the names load_gpx built a record from in this run
    wrote,        \* the run has written cache.pkl
    phases,       \* the later stages the run has performed
    failure,      \* why the run aborted
    startCache,   \* cache.pkl as the run found it
    repeat,       \* the run follows a completed run with the directory unchanged
    clean,        \* the last run completed and the directory is as it left it
    \* ---- osm.parse_osm on a snapshot
    osm_doc,      \* the snapshot: its <node> elements and its <way> elements
    parse_pc,     \* "build" while the snapshot is being drawn, then "parsed"
    parse_out,    \* what parse_osm returned or raised
    \* ---- draw.plot, the overlay of lines 70-88
    osm_file,     \* map_<id>.osm per identity: absent, or the payload written
    segments_file,\* segments_<id>.pkl per identity: absent, or the pickled list
    o_pc,         \* the position of the overlay request
    o_id,         \* the identity of the request's bounding box
    segments,     \* the request's local variable segments
    o_hist,       \* what the request found and did
    contacts,     \* per identity: downloads made by requests that succeeded
    parses,       \* per identity: parse_osm calls of requests that succeeded
    \* ---- draw.py lines 206-229: reduction and the cluster branch
    c_data,       \* data after line 209: the tracks, each with lats and lons
    c_args,       \* args: reduction, radius, min_cluster_size
    coords,       \* line 212-216: one reduced point per track
    labels,       \* cluster.labels_
    plots,        \* the label_data of each call of plot, in order
    c_pc,         \* the position in lines 206-229
    \* ---- osm.osm_id
    bbox,         \* <<min_lon, min_lat, max_lon, max_lat>>, four Python floats
    id_a,         \* osm_id of bbox
    bbox_b,       \* bbox with one of the four floats moved to the next float
    id_b,         \* osm_id of bbox_b
    id_pc

trackVars == <<gpx_dir, cache, pc, files, data, new_files, batch, parsed,
               wrote, phases, failure, startCache, repeat, clean>>

parseVars == <<osm_doc, parse_pc, parse_out>>

overlayVars == <<osm_file, segments_file, o_pc, o_id, segments, o_hist,
                 contacts, parses>>

clusterVars == <<c_data, c_args, coords, labels, plots, c_pc>>

idVars == <<bbox, id_a, bbox_b, id_b, id_pc>>

vars == <<trackVars, parseVars, overlayVars, clusterVars, idVars>>

\* What the actions of one part leave alone.
TrackOnly == UNCHANGED <<parseVars, overlayVars, clusterVars, idVars>>
ParseOnly == UNCHANGED <<trackVars, overlayVars, clusterVars, idVars>>
OverlayOnly == UNCHANGED <<trackVars, parseVars, clusterVars, idVars>>
ClusterOnly == UNCHANGED <<trackVars, parseVars, overlayVars, idVars>>
IdOnly == UNCHANGED <<trackVars, parseVars, overlayVars, clusterVars>>

(***************************************************************************)
(* Bounds                                                                  *)
(***************************************************************************)
NFiles == 3
MaxNear == 6      \* tracks of each of the two shapes that lie close together
MaxFar == 2       \* tracks of the shape that lies far away
NIds == 2         \* distinct bounding-box identities requested
MaxSize == 5      \* <way> elements of a snapshot plus their children

\* The track files that can appear in the directory.  File 0 is a GPX file
\* with no track (or a track with no segment); files 1..NFiles parse.
Files == 0..NFiles
EmptyGpx(f) == f = 0

NoCache == [exists |-> FALSE, tracks |-> <<>>, files |-> {}]

\* One record of data["tracks"]; the track's content is a function of the
\* file, so the record carries the name (draw.py line 127).
Record(f) == [filename |-> f]

Range(s) == {s[i] : i \in DOMAIN s}

(***************************************************************************)
(* draw.py line 192: the names the update hands to load_gpx.  The code     *)
(* takes the symmetric difference of the cached names and the directory.   *)
(***************************************************************************)
\* NewFiles, had the update handed every file of the directory to load_gpx.
NewFilesAll(known, onDisk) == onDisk

NewFiles(known, onDisk) == (known \ onDisk) \cup (onDisk \ known)

(***************************************************************************)
(* load_gpx lines 130-134: the file set of the returned corpus.            *)
(***************************************************************************)
\* MergeFiles, had load_gpx kept only the names of this call.
MergeFilesReplace(d, file_set) == file_set

MergeFiles(d, file_set) ==
    IF d.exists THEN d.files \cup file_set ELSE file_set

TrackInit ==
    /\ gpx_dir \in SUBSET Files
    /\ cache = NoCache
    /\ pc = "idle"
    /\ files = {}
    /\ data = NoCache
    /\ new_files = {}
    /\ batch = {}
    /\ parsed = {}
    /\ wrote = FALSE
    /\ phases = {}
    /\ failure = "none"
    /\ startCache = NoCache
    /\ repeat = FALSE
    /\ clean = FALSE

BetweenRuns == pc = "idle"

\* The track-acquisition collaborator (download.py lines 101-111) adds files;
\* the user removes them.
AddFile(f) ==
    /\ BetweenRuns
    /\ f \notin gpx_dir
    /\ gpx_dir' = gpx_dir \cup {f}
    /\ clean' = FALSE
    /\ UNCHANGED <<cache, pc, files, data, new_files, batch, parsed, wrote,
                   phases, failure, startCache, repeat>>
    /\ TrackOnly

RemoveFile(f) ==
    /\ BetweenRuns
    /\ f \in gpx_dir
    /\ gpx_dir' = gpx_dir \ {f}
    /\ clean' = FALSE
    /\ UNCHANGED <<cache, pc, files, data, new_files, batch, parsed, wrote,
                   phases, failure, startCache, repeat>>
    /\ TrackOnly

\* draw.py lines 185-196 and 199-200: glob, look for cache.pkl, load it and
\* compute new_files, up to the call of load_gpx.
StartRun ==
    /\ BetweenRuns
    /\ repeat' = clean
    /\ clean' = FALSE
    /\ files' = gpx_dir
    /\ startCache' = cache
    /\ parsed' = {}
    /\ wrote' = FALSE
    /\ phases' = {}
    /\ IF cache.exists
       THEN LET nf == NewFiles(cache.files, gpx_dir) IN
            /\ data' = cache
            /\ IF nf = {}
               THEN /\ pc' = "loaded"
                    /\ new_files' = {}
                    /\ batch' = {}
                    /\ failure' = "none"
               ELSE IF gpx_dir = {}
               THEN \* line 195: files[0] of an empty list
                    /\ pc' = "aborted"
                    /\ new_files' = nf
                    /\ batch' = {}
                    /\ failure' = "IndexError"
               ELSE /\ pc' = "load_gpx"
                    /\ new_files' = nf
                    /\ batch' = nf
                    /\ failure' = "none"
       ELSE /\ data' = NoCache
            /\ pc' = "load_gpx"
            /\ new_files' = gpx_dir
            /\ batch' = gpx_dir
            /\ failure' = "none"
    /\ UNCHANGED <<gpx_dir, cache>>
    /\ TrackOnly

\* load_gpx lines 111-128, one iteration that succeeds.
ParseFile(f) ==
    /\ pc = "load_gpx"
    /\ f \in new_files
    /\ f \in gpx_dir
    /\ ~EmptyGpx(f)
    /\ data' = [data EXCEPT !.tracks = Append(@, Record(f))]
    /\ parsed' = parsed \cup {f}
    /\ new_files' = new_files \ {f}
    /\ UNCHANGED <<gpx_dir, cache, pc, files, batch, wrote, phases, failure,
                   startCache, repeat, clean>>
    /\ TrackOnly

\* ParseFail, had load_gpx skipped a file without a track.
ParseSkip(f) ==
    /\ pc = "load_gpx"
    /\ f \in new_files
    /\ f \in gpx_dir
    /\ EmptyGpx(f)
    /\ new_files' = new_files \ {f}
    /\ UNCHANGED <<gpx_dir, cache, pc, files, data, batch, parsed, wrote,
                   phases, failure, startCache, repeat, clean>>
    /\ TrackOnly

\* load_gpx lines 114-118, one iteration that raises: open() of a name that
\* is not in the directory, or tracks[0] / segments[0] of a file without one.
\* Nothing catches the exception: the run ends.
ParseFail(f) ==
    /\ pc = "load_gpx"
    /\ f \in new_files
    /\ f \notin gpx_dir \/ EmptyGpx(f)
    /\ pc' = "aborted"
    /\ failure' = IF f \notin gpx_dir THEN "FileNotFoundError" ELSE "ParseError"
    /\ UNCHANGED <<gpx_dir, cache, files, data, new_files, batch, parsed,
                   wrote, phases, startCache, repeat, clean>>
    /\ TrackOnly

\* load_gpx lines 129-135 and the pickle.dump that follows the call
\* (lines 197-198, 201-203).
SaveCache ==
    /\ pc = "load_gpx"
    /\ new_files = {}
    /\ data' = [exists |-> TRUE, tracks |-> data.tracks,
                files |-> MergeFiles(data, batch)]
    /\ cache' = data'
    /\ wrote' = TRUE
    /\ pc' = "loaded"
    /\ UNCHANGED <<gpx_dir, files, new_files, batch, parsed, phases, failure,
                   startCache, repeat, clean>>
    /\ TrackOnly

\* draw.py lines 206-216: the activity filter and the reduction.
Reduce ==
    /\ pc = "loaded"
    /\ phases' = phases \cup {"reduce"}
    /\ pc' = "reduced"
    /\ UNCHANGED <<gpx_dir, cache, files, data, new_files, batch, parsed,
                   wrote, failure, startCache, repeat, clean>>
    /\ TrackOnly

\* draw.py lines 218-246: clustering or filtering, and the plots.
Plot ==
    /\ pc = "reduced"
    /\ phases' = phases \cup {"plot"}
    /\ pc' = "done"
    /\ clean' = TRUE
    /\ UNCHANGED <<gpx_dir, cache, files, data, new_files, batch, parsed,
                   wrote, failure, startCache, repeat>>
    /\ TrackOnly

\* The process ends: its memory is gone, the directory and cache.pkl stay.
Exit ==
    /\ pc \in {"done", "aborted"}
    /\ pc' = "idle"
    /\ files' = {}
    /\ data' = NoCache
    /\ new_files' = {}
    /\ batch' = {}
    /\ parsed' = {}
    /\ wrote' = FALSE
    /\ phases' = {}
    /\ failure' = "none"
    /\ startCache' = NoCache
    /\ repeat' = FALSE
    /\ UNCHANGED <<gpx_dir, cache, clean>>
    /\ TrackOnly

TrackNext ==
    \/ \E f \in Files : AddFile(f)
    \/ \E f \in Files : RemoveFile(f)
    \/ StartRun
    \/ \E f \in Files : ParseFile(f)
    \/ \E f \in Files : ParseFail(f)
    \/ SaveCache
    \/ Reduce
    \/ Plot
    \/ Exit

(***************************************************************************)
(* Claims on the corpus cache, checked under Spec                          *)
(***************************************************************************)
RunEnded == pc \in {"done", "aborted"}

FileNames(d) == {d.tracks[i].filename : i \in DOMAIN d.tracks}

\* C1: an update that finds a cache with file set K = {A, B} and a directory
\* D = {B, C} parses exactly D \ K = {C} and completes with the persisted
\* file set K \cup D = {A, B, C}.  (Files 1, 2, 3 are A, B, C.)
C1_DiffCorrectness ==
    (RunEnded /\ startCache.exists /\ startCache.files = {1, 2}
              /\ files = {2, 3})
        => /\ pc = "done"
           /\ parsed = files \ startCache.files
           /\ cache.exists
           /\ cache.files = startCache.files \cup files

\* C2: a run that follows a completed run, with the directory unchanged in
\* between, parses no file, does not write cache.pkl and leaves its content
\* as the first run left it.
C2_IdempotentUpdate ==
    repeat => /\ pc \notin {"load_gpx", "aborted"}
              /\ parsed = {}
              /\ ~wrote
              /\ cache = startCache

C2_Witness ==
    /\ repeat
    /\ pc = "done"
    /\ Len(cache.tracks) >= 2

\* C3: in every persisted cache, data["files"] is exactly the set of the
\* filenames of the records of data["tracks"], and no two records share a
\* filename.
C3_CacheConsistent ==
    cache.exists =>
        /\ cache.files = FileNames(cache)
        /\ \A i, j \in DOMAIN cache.tracks :
              cache.tracks[i].filename = cache.tracks[j].filename => i = j

C3_Witness ==
    /\ pc = "done"
    /\ startCache.exists
    /\ wrote
    /\ Len(cache.tracks) >= 3
    /\ Len(startCache.tracks) >= 1

\* C4: a track file without a track or without a segment aborts the run that
\* tries to parse it: the file is not skipped, no later stage runs, and
\* cache.pkl stays as the run found it, whatever the run parsed before.
C4_EmptyTrackAborts ==
    /\ failure = "ParseError" =>
          /\ pc = "aborted"
          /\ phases = {}
          /\ ~wrote
          /\ cache = startCache
    /\ pc \in {"loaded", "reduced", "done"} => \A f \in batch : ~EmptyGpx(f)

C4_Witness ==
    /\ failure = "ParseError"
    /\ parsed # {}
    /\ startCache.exists
    /\ pc = "aborted"

(***************************************************************************)
(* osm.parse_osm                                                           *)
(*                                                                         *)
(* A snapshot is the parsed XML tree: the <node> children of the root in   *)
(* document order and its <way> children in document order, each way the   *)
(* sequence of its child elements.  Node ids and refs are the integers     *)
(* int() makes of the attributes; a ref is <<>> when the attribute is      *)
(* missing and <<n>> otherwise.  Coordinates are <<lon, lat>>.             *)
(***************************************************************************)
Nd(r) == [tag |-> "nd", ref |-> r, k |-> "", v |-> ""]
Tag(key, val) == [tag |-> "tag", ref |-> <<>>, k |-> key, v |-> val]
Node(i, lon, lat) == [id |-> i, lon |-> lon, lat |-> lat]

Snapshot(ns, ws) == [wellformed |-> TRUE, nodes |-> ns, ways |-> ws]
MalformedXml == [wellformed |-> FALSE, nodes |-> <<>>, ways |-> <<>>]

NoSegments == [raised |-> "none", returned |-> FALSE, segments |-> <<>>]
Raised(e) == [raised |-> e, returned |-> FALSE, segments |-> <<>>]
Returned(segs) == [raised |-> "none", returned |-> TRUE, segments |-> segs]

\* osm.py lines 37-39: the dict from node id to (lon, lat); a later <node>
\* with the same id replaces the earlier one.
RECURSIVE BuildNodes(_)
BuildNodes(ns) ==
    IF ns = <<>> THEN <<>>
    ELSE LET rest == BuildNodes(SubSeq(ns, 1, Len(ns) - 1))
             n == ns[Len(ns)]
         IN [i \in (DOMAIN rest) \cup {n.id} |->
                IF i = n.id THEN <<n.lon, n.lat>> ELSE rest[i]]

\* osm.py line 68: the tag that makes a way a road.
\* IsRoadTag, had the code looked at the value too.
IsRoadTagByValue(key, val) == key = "highway" /\ val # "no"

IsRoadTag(key, val) == key = "highway"

\* VisitNd, had the code looked the ref up with `if int(ref) in nodes`.
VisitNdSkip(acc, e, nodes) ==
    IF e.ref = <<>> \/ e.ref[1] \notin DOMAIN nodes THEN acc
    ELSE [acc EXCEPT !.coords = Append(@, nodes[e.ref[1]])]

\* osm.py lines 61-64: one <nd> child.  nodes[int(ref)] raises KeyError
\* when the id is not in the dict.
VisitNd(acc, e, nodes) ==
    IF e.ref = <<>> THEN acc
    ELSE IF e.ref[1] \in DOMAIN nodes
         THEN [acc EXCEPT !.coords = Append(@, nodes[e.ref[1]])]
         ELSE [acc EXCEPT !.raised = "KeyError"]

\* osm.py lines 65-70: one <tag> child.
VisitTag(acc, e) ==
    IF IsRoadTag(e.k, e.v) THEN [acc EXCEPT !.keep = TRUE] ELSE acc

\* osm.py lines 57-70: the children of one way, in order, up to the first
\* exception.
RECURSIVE ScanWay(_, _, _)
ScanWay(es, nodes, acc) ==
    IF es = <<>> \/ acc.raised # "none" THEN acc
    ELSE LET e == Head(es)
             next == IF e.tag = "nd" THEN VisitNd(acc, e, nodes)
                     ELSE IF e.tag = "tag" THEN VisitTag(acc, e)
                     ELSE acc
         IN ScanWay(Tail(es), nodes, next)

\* osm.py lines 55-73: the ways in document order.
RECURSIVE ScanWays(_, _, _)
ScanWays(ws, nodes, segs) ==
    IF ws = <<>> THEN Returned(segs)
    ELSE LET w == ScanWay(Head(ws), nodes,
                          [raised |-> "none", keep |-> FALSE, coords |-> <<>>])
         IN IF w.raised # "none" THEN Raised(w.raised)
            ELSE ScanWays(Tail(ws), nodes,
                          IF w.keep THEN Append(segs, w.coords)
                          ELSE segs)

\* osm.py lines 30-75.  et.parse raises ParseError on a file that is not XML.
parse_osm(doc) ==
    IF ~doc.wellformed THEN Raised("ParseError")
    ELSE ScanWays(doc.ways, BuildNodes(doc.nodes), <<>>)

\* The snapshots SpecParse draws: one of these <node> lists (none, one node,
\* two nodes, a node id given twice), then ways and children.
NodeLists == {<<>>,
              <<Node(1, 10, 20)>>,
              <<Node(1, 10, 20), Node(2, 30, 40)>>,
              <<Node(1, 10, 20), Node(2, 30, 40), Node(1, 11, 21)>>}
ChildChoices == {Nd(<<1>>), Nd(<<2>>), Nd(<<>>),
                 Tag("highway", "tertiary"), Tag("highway", "no"),
                 Tag("name", "Grove Street")}

RECURSIVE SumLen(_)
SumLen(ws) == IF ws = <<>> THEN 0 ELSE Len(Head(ws)) + SumLen(Tail(ws))
Size(doc) == Len(doc.ways) + SumLen(doc.ways)

ParseIdle ==
    /\ osm_doc = Snapshot(<<>>, <<>>)
    /\ parse_pc = "build"
    /\ parse_out = NoSegments

ParseInit ==
    /\ osm_doc \in {Snapshot(ns, <<>>) : ns \in NodeLists}
    /\ parse_pc = "build"
    /\ parse_out = NoSegments

AddWay ==
    /\ parse_pc = "build"
    /\ Size(osm_doc) < MaxSize
    /\ osm_doc' = [osm_doc EXCEPT !.ways = Append(@, <<>>)]
    /\ UNCHANGED <<parse_pc, parse_out>>
    /\ ParseOnly

AddChild(e) ==
    /\ parse_pc = "build"
    /\ osm_doc.ways # <<>>
    /\ Size(osm_doc) < MaxSize
    /\ osm_doc' = [osm_doc EXCEPT !.ways[Len(osm_doc.ways)] = Append(@, e)]
    /\ UNCHANGED <<parse_pc, parse_out>>
    /\ ParseOnly

ParseOsm ==
    /\ parse_pc = "build"
    /\ parse_out' = parse_osm(osm_doc)
    /\ parse_pc' = "parsed"
    /\ UNCHANGED osm_doc
    /\ ParseOnly

ParseNext ==
    \/ AddWay
    \/ \E e \in ChildChoices : AddChild(e)
    \/ ParseOsm

TrackIdle ==
    /\ gpx_dir = {}
    /\ cache = NoCache
    /\ pc = "idle"
    /\ files = {}
    /\ data = NoCache
    /\ new_files = {}
    /\ batch = {}
    /\ parsed = {}
    /\ wrote = FALSE
    /\ phases = {}
    /\ failure = "none"
    /\ startCache = NoCache
    /\ repeat = FALSE
    /\ clean = FALSE

(***************************************************************************)
(* Claims on parse_osm, checked under SpecParse                            *)
(***************************************************************************)
RefsOf(way) == SelectSeq(way, LAMBDA e : e.tag = "nd" /\ e.ref # <<>>)

AllResolve(doc) ==
    \A i \in DOMAIN doc.ways : \A j \in DOMAIN doc.ways[i] :
        LET e == doc.ways[i][j] IN
        (e.tag = "nd" /\ e.ref # <<>>) =>
            \E m \in DOMAIN doc.nodes : doc.nodes[m].id = e.ref[1]

\* The coordinates of the node with this id: those of its last <node>.
CoordOf(doc, id) ==
    LET at == {m \in DOMAIN doc.nodes : doc.nodes[m].id = id}
        last == CHOOSE m \in at : \A o \in at : o <= m
    IN <<doc.nodes[last].lon, doc.nodes[last].lat>>

HighwayWays(doc) ==
    {i \in DOMAIN doc.ways :
        \E j \in DOMAIN doc.ways[i] :
            doc.ways[i][j].tag = "tag" /\ doc.ways[i][j].k = "highway"}

\* The index of the n-th way that carries a highway tag.
NthHighway(doc, n) ==
    CHOOSE i \in HighwayWays(doc) :
        Cardinality({j \in HighwayWays(doc) : j <= i}) = n

\* C7: on a snapshot whose refs all resolve, parse_osm returns, in document
\* order, one segment per way with a tag of key "highway" (whatever the
\* value): the coordinates of the nodes the way references, in order.  A
\* way without the tag gives no segment.
C7_WayFiltering ==
    (parse_pc = "parsed" /\ AllResolve(osm_doc)) =>
        /\ parse_out.returned
        /\ Len(parse_out.segments) = Cardinality(HighwayWays(osm_doc))
        /\ \A n \in DOMAIN parse_out.segments :
              LET refs == RefsOf(osm_doc.ways[NthHighway(osm_doc, n)])
                  seg == parse_out.segments[n]
              IN /\ Len(seg) = Len(refs)
                 /\ \A m \in DOMAIN refs : seg[m] = CoordOf(osm_doc, refs[m].ref[1])

C7_Witness ==
    /\ parse_pc = "parsed"
    /\ AllResolve(osm_doc)
    /\ Len(osm_doc.ways) = 2
    /\ Len(parse_out.segments) = 1
    /\ Len(parse_out.segments[1]) = 1
    /\ HighwayWays(osm_doc) = {2}
    /\ RefsOf(osm_doc.ways[1]) # <<>>
    /\ \E j \in DOMAIN osm_doc.ways[2] : osm_doc.ways[2][j].v = "no"

(***************************************************************************)
(* draw.plot lines 70-88 and osm.download_osm                              *)
(***************************************************************************)
Ids == 1..NIds

NoFile == [exists |-> FALSE, content |-> <<>>]
FileOf(c) == [exists |-> TRUE, content |-> c]

\* What the map service can answer.  A 2xx answer carries a snapshot; any
\* other answer carries an error page, which may or may not be XML.
OsmBodies ==
    { Snapshot(<<Node(1, 10, 20), Node(2, 30, 40)>>,
               << <<Nd(<<1>>), Tag("highway", "tertiary"), Nd(<<2>>)>>,
                  <<Nd(<<2>>), Tag("name", "Grove Street")>> >>),
      Snapshot(<<Node(1, 10, 20)>>,
               << <<Nd(<<1>>), Nd(<<2>>), Tag("highway", "tertiary")>> >>),
      Snapshot(<<Node(1, 10, 20)>>,
               << <<Tag("highway", "tertiary"), Nd(<<1>>)>>,
                  <<Nd(<<2>>), Tag("name", "Grove Street")>> >>) }
ErrorBodies == {MalformedXml, Snapshot(<<>>, <<>>)}
Statuses == {200, 429, 504}
Success(status) == status >= 200 /\ status < 300
Responses ==
    {[status |-> st, content |-> b] :
        st \in Statuses, b \in OsmBodies \cup ErrorBodies}
CanAnswer(r) ==
    IF Success(r.status) THEN r.content \in OsmBodies
    ELSE r.content \in ErrorBodies

NoHist == [segAtStart |-> FALSE, osmAtStart |-> FALSE, downloaded |-> FALSE,
           status |-> 0, parsed |-> FALSE]

OverlayIdle ==
    /\ osm_file = [i \in Ids |-> NoFile]
    /\ segments_file = [i \in Ids |-> NoFile]
    /\ o_pc = "idle"
    /\ o_id = 1
    /\ segments = NoSegments
    /\ o_hist = NoHist
    /\ contacts = [i \in Ids |-> 0]
    /\ parses = [i \in Ids |-> 0]

\* Lookup, had plot looked for the snapshot file only.
LookupSnapshotOnly(haveSegments, haveOsm) ==
    IF ~haveOsm THEN "download" ELSE "parse"

\* draw.py lines 76-88: what the request does next, from the files it finds.
Lookup(haveSegments, haveOsm) ==
    IF ~haveSegments
    THEN IF ~haveOsm THEN "download" ELSE "parse"
    ELSE "load"

\* draw.py lines 70-78: plot reaches the overlay with a bounding box.
OverlayStart(id) ==
    /\ o_pc = "idle"
    /\ o_id' = id
    /\ segments' = NoSegments
    /\ o_hist' = [NoHist EXCEPT !.segAtStart = segments_file[id].exists,
                                !.osmAtStart = osm_file[id].exists]
    /\ o_pc' = Lookup(segments_file[id].exists, osm_file[id].exists)
    /\ UNCHANGED <<osm_file, segments_file, contacts, parses>>
    /\ OverlayOnly

\* osm.download_osm lines 22-27: the answer's content is written to the
\* snapshot file whatever its status, and plot goes on to parse_osm.
DownloadOsm(r) ==
    /\ o_pc = "download"
    /\ CanAnswer(r)
    /\ o_hist' = [o_hist EXCEPT !.downloaded = TRUE, !.status = r.status]
    /\ osm_file' = [osm_file EXCEPT ![o_id] = FileOf(r.content)]
    /\ o_pc' = "parse"
    /\ UNCHANGED <<segments_file, o_id, segments, contacts, parses>>
    /\ OverlayOnly

\* osm.py line 25: requests.get raises (no connection); nothing is written.
DownloadRaises ==
    /\ o_pc = "download"
    /\ o_pc' = "failed"
    /\ UNCHANGED <<osm_file, segments_file, o_id, segments, o_hist, contacts,
                   parses>>
    /\ OverlayOnly

\* The process is stopped while parse_osm runs ("this could take a little").
Interrupt ==
    /\ o_pc = "parse"
    /\ o_pc' = "failed"
    /\ UNCHANGED <<osm_file, segments_file, o_id, segments, o_hist, contacts,
                   parses>>
    /\ OverlayOnly

\* draw.py line 82: segments = osm.parse_osm(osm_file); an exception of
\* parse_osm leaves plot.
ParseSnapshot ==
    /\ o_pc = "parse"
    /\ LET r == parse_osm(osm_file[o_id].content) IN
       /\ segments' = r
       /\ o_pc' = IF r.returned THEN "dump" ELSE "failed"
    /\ o_hist' = [o_hist EXCEPT !.parsed = TRUE]
    /\ UNCHANGED <<osm_file, segments_file, o_id, contacts, parses>>
    /\ OverlayOnly

\* What the request adds to the counts when it succeeds.
Counted(count) ==
    [count EXCEPT ![o_id] = @ + 1]

\* draw.py lines 83-84: pickle.dump(segments, f).
DumpSegments ==
    /\ o_pc = "dump"
    /\ segments_file' = [segments_file EXCEPT ![o_id] = FileOf(segments.segments)]
    /\ o_pc' = "done"
    /\ contacts' = IF o_hist.downloaded THEN Counted(contacts) ELSE contacts
    /\ parses' = IF o_hist.parsed THEN Counted(parses) ELSE parses
    /\ UNCHANGED <<osm_file, o_id, segments, o_hist>>
    /\ OverlayOnly

\* draw.py lines 86-88: segments = pickle.load(f).
LoadSegments ==
    /\ o_pc = "load"
    /\ segments' = Returned(segments_file[o_id].content)
    /\ o_pc' = "done"
    /\ UNCHANGED <<osm_file, segments_file, o_id, o_hist, contacts, parses>>
    /\ OverlayOnly

\* plot returns, or the exception ends the process.
OverlayEnd ==
    /\ o_pc \in {"done", "failed"}
    /\ o_pc' = "idle"
    /\ segments' = NoSegments
    /\ o_hist' = NoHist
    /\ UNCHANGED <<osm_file, segments_file, o_id, contacts, parses>>
    /\ OverlayOnly

OverlayNext ==
    \/ \E id \in Ids : OverlayStart(id)
    \/ \E r \in Responses : DownloadOsm(r)
    \/ DownloadRaises
    \/ Interrupt
    \/ ParseSnapshot
    \/ DumpSegments
    \/ LoadSegments
    \/ OverlayEnd

(***************************************************************************)
(* Claims on the overlay, checked under SpecOverlay                        *)
(***************************************************************************)
\* C5: a request that finds the extracted-segments file loads it and neither
\* downloads nor parses; one that finds only the snapshot parses it without
\* a download; a download happens only when both are absent.  A request that
\* succeeded leaves the extracted-segments file, so the requests that succeed
\* for one identity contact the service at most once and parse at most once.
C5_LookupOrder ==
    /\ o_hist.segAtStart => ~o_hist.downloaded /\ ~o_hist.parsed
    /\ o_hist.osmAtStart => ~o_hist.downloaded
    /\ (o_pc = "done" /\ ~o_hist.segAtStart) => o_hist.parsed
    /\ o_pc = "done" => /\ segments_file[o_id].exists
                        /\ segments = Returned(segments_file[o_id].content)
    /\ \A id \in Ids : contacts[id] <= 1 /\ parses[id] <= 1

C5_Witness ==
    /\ o_pc = "done"
    /\ o_hist.segAtStart
    /\ contacts[o_id] = 1
    /\ parses[o_id] = 1
    /\ segments.segments # <<>>

\* C6: a request whose download is answered with a non-2xx status fails in
\* the download step, and parse_osm is not attempted on that answer.
C6_Non2xxFailsDownload ==
    (o_hist.downloaded /\ ~Success(o_hist.status)) =>
        /\ o_pc = "failed"
        /\ ~o_hist.parsed
        /\ ~osm_file[o_id].exists

\* A ref of any way of the snapshot that no <node> defines.
HasDangling(doc) == doc.wellformed /\ ~AllResolve(doc)

\* C8: when a way of the snapshot (with or without a highway tag) holds a
\* ref that no node defines, parse_osm raises and returns no segments, and
\* the request writes no extracted-segments file for the identity.
C8_DanglingRefAborts ==
    (o_hist.parsed /\ HasDangling(osm_file[o_id].content)) =>
        /\ o_pc = "failed"
        /\ segments = Raised("KeyError")
        /\ ~segments_file[o_id].exists

C8_Witness ==
    /\ o_hist.parsed
    /\ HasDangling(osm_file[o_id].content)
    /\ HighwayWays(osm_file[o_id].content) = {1}
    /\ Len(osm_file[o_id].content.ways) = 2
    /\ o_pc = "failed"

(***************************************************************************)
(* draw.py lines 206-229: reduction and the cluster branch                 *)
(*                                                                         *)
(* Latitudes, longitudes and the radius are in hundredths of a degree.  A  *)
(* reduced point is kept exactly, as the sums of the averaged latitudes    *)
(* and longitudes and their count n (the point is <<lat / n, lon / n>>),   *)
(* and distances are compared after cross-multiplying; floating-point      *)
(* rounding is not modelled.                                               *)
(***************************************************************************)
MinSamples == 10

Track(las, los) == [lats |-> las, lons |-> los]
TrackNearA == Track(<<0>>, <<0>>)
TrackNearB == Track(<<0, 2, 7>>, <<0, 0, 0>>)
TrackFar == Track(<<1000>>, <<0>>)

RECURSIVE Copies(_, _)
Copies(t, n) == IF n = 0 THEN <<>> ELSE <<t>> \o Copies(t, n - 1)

Corpora ==
    {Copies(TrackNearA, a) \o Copies(TrackNearB, b) \o Copies(TrackFar, c) :
        a \in 0..MaxNear, b \in 0..MaxNear, c \in 0..MaxFar}

RECURSIVE Sum(_)
Sum(xs) == IF xs = <<>> THEN 0 ELSE Head(xs) + Sum(Tail(xs))

\* draw.py lines 211-216.
ReducePoint(d, reduction) ==
    IF reduction = "average"
    THEN [lat |-> Sum(d.lats), lon |-> Sum(d.lons), n |-> Len(d.lats)]
    ELSE IF reduction = "start_stop_average"
    THEN [lat |-> d.lats[1] + d.lats[Len(d.lats)],
          lon |-> d.lons[1] + d.lons[Len(d.lons)], n |-> 2]
    ELSE [lat |-> d.lats[1], lon |-> d.lons[1], n |-> 1]

\* The points p, q lie within eps of each other (Euclidean, inclusive).
Within(p, q, eps) ==
    LET dlat == p.lat * q.n - q.lat * p.n
        dlon == p.lon * q.n - q.lon * p.n
        r == eps * p.n * q.n
    IN dlat * dlat + dlon * dlon <= r * r

Neighbours(pts, i, eps) == {j \in DOMAIN pts : Within(pts[i], pts[j], eps)}

IsCore(pts, i, eps, min_samples) ==
    Cardinality(Neighbours(pts, i, eps)) >= min_samples

\* The points one cluster takes: those reached from its first core point
\* through core points, among the points not labelled yet.
RECURSIVE Expand(_, _, _, _, _)
Expand(pts, eps, min_samples, free, S) ==
    LET more == {v \in free \ S :
                    \E u \in S : /\ IsCore(pts, u, eps, min_samples)
                                 /\ v \in Neighbours(pts, u, eps)}
    IN IF more = {} THEN S
       ELSE Expand(pts, eps, min_samples, free, S \cup more)

\* DBSCAN(eps, min_samples).fit(coords).labels_ : the points in index order;
\* an unlabelled core point starts the next cluster; -1 is noise.
RECURSIVE DbscanFrom(_, _, _, _, _, _)
DbscanFrom(pts, eps, min_samples, i, lab, label_num) ==
    IF i > Len(pts) THEN lab
    ELSE IF lab[i] # -1 \/ ~IsCore(pts, i, eps, min_samples)
    THEN DbscanFrom(pts, eps, min_samples, i + 1, lab, label_num)
    ELSE LET free == {v \in DOMAIN pts : lab[v] = -1}
             members == Expand(pts, eps, min_samples, free, {i})
         IN DbscanFrom(pts, eps, min_samples, i + 1,
                       [v \in DOMAIN pts |->
                           IF v \in members THEN label_num ELSE lab[v]],
                       label_num + 1)

DBSCAN(pts, eps, min_samples) ==
    DbscanFrom(pts, eps, min_samples, 1, [v \in DOMAIN pts |-> -1], 0)

\* draw.py line 221: np.max(cluster.labels_) + 1.
NClusters(lab) ==
    IF lab = <<>> THEN 0
    ELSE (CHOOSE m \in Range(lab) : \A o \in Range(lab) : o <= m) + 1

Members(lab, l) == {i \in DOMAIN lab : lab[i] = l}

ClusterIdle ==
    /\ c_data = <<>>
    /\ c_args = [reduction |-> "average", radius |-> 5, min_cluster_size |-> 10]
    /\ coords = <<>>
    /\ labels = <<>>
    /\ plots = <<>>
    /\ c_pc = "start"

ClusterInit ==
    /\ c_data \in Corpora \ {<<>>}
    /\ c_args \in [reduction : {"start", "average", "start_stop_average"},
                   radius : {5, 300},
                   min_cluster_size : {2, 10}]
    /\ coords = <<>>
    /\ labels = <<>>
    /\ plots = <<>>
    /\ c_pc = "start"

\* draw.py lines 211-216.
ReduceTracks ==
    /\ c_pc = "start"
    /\ coords' = [i \in DOMAIN c_data |-> ReducePoint(c_data[i], c_args.reduction)]
    /\ c_pc' = "reduced"
    /\ UNCHANGED <<c_data, c_args, labels, plots>>
    /\ ClusterOnly

\* draw.py lines 219-220: DBSCAN(eps=args.radius, min_samples=10).
FitClusters ==
    /\ c_pc = "reduced"
    /\ labels' = DBSCAN(coords, c_args.radius, MinSamples)
    /\ c_pc' = "fitted"
    /\ UNCHANGED <<c_data, c_args, coords, plots>>
    /\ ClusterOnly

\* draw.py lines 226-229: one plot per label, in ascending order.
PlotCluster ==
    /\ c_pc = "fitted"
    /\ Len(plots) < NClusters(labels)
    /\ plots' = Append(plots, Members(labels, Len(plots)))
    /\ UNCHANGED <<c_data, c_args, coords, labels, c_pc>>
    /\ ClusterOnly

ClusterDone ==
    /\ c_pc = "fitted"
    /\ Len(plots) = NClusters(labels)
    /\ c_pc' = "done"
    /\ UNCHANGED <<c_data, c_args, coords, labels, plots>>
    /\ ClusterOnly

ClusterNext ==
    \/ ReduceTracks
    \/ FitClusters
    \/ PlotCluster
    \/ ClusterDone

(***************************************************************************)
(* Claims on the cluster branch, checked under SpecCluster                 *)
(***************************************************************************)
\* Three tracks reduced with "average", radius 0.05, minimum size 2; the
\* first two reduce to points 0.03 apart, the third lies 10 degrees away.
C9_Scenario ==
    /\ c_data = <<TrackNearA, TrackNearB, TrackFar>>
    /\ c_args = [reduction |-> "average", radius |-> 5, min_cluster_size |-> 2]

\* C9: clustering uses the configured radius and the configured minimum
\* neighbourhood size; in the scenario above the run ends with one cluster,
\* of the first two tracks, and one unclustered track.
C9_ClusterUsesBothParameters ==
    (C9_Scenario /\ c_pc = "done") =>
        /\ labels = DBSCAN(coords, c_args.radius, c_args.min_cluster_size)
        /\ NClusters(labels) = 1
        /\ plots = << {1, 2} >>
        /\ Members(labels, -1) = {3}

(***************************************************************************)
(* osm.osm_id                                                              *)
(*                                                                         *)
(* A Python float is an IEEE-754 double: a sign, an exponent and a 52-bit  *)
(* fraction, kept here as its top 23 bits (hi) and its low 29 bits (lo).   *)
(* The values are normal numbers of the size of a longitude or latitude,   *)
(* so struct.pack(">f") neither overflows nor produces a subnormal.        *)
(***************************************************************************)
FracBits32 == 2^23     \* fraction values of a 4-byte float
LowBits == 2^29        \* values of the 29 fraction bits a 4-byte float drops
HalfLow == 2^28

Double(s, e, h, l) == [sign |-> s, exp |-> e, hi |-> h, lo |-> l]

\* struct.pack(">f", f), osm.py line 18: the double rounded to the nearest
\* 4-byte float (ties to even), as its four bytes, most significant first.
Pack(d) ==
    LET up == d.lo > HalfLow \/ (d.lo = HalfLow /\ d.hi % 2 = 1)
        carry == up /\ d.hi + 1 = FracBits32
        frac == IF ~up THEN d.hi ELSE IF carry THEN 0 ELSE d.hi + 1
        biased == (IF carry THEN d.exp + 1 ELSE d.exp) + 127
    IN << d.sign * 128 + biased \div 2,
          (biased % 2) * 128 + frac \div 65536,
          (frac \div 256) % 256,
          frac % 256 >>

HexDigits == <<"0", "1", "2", "3", "4", "5", "6", "7",
               "8", "9", "a", "b", "c", "d", "e", "f">>

\* base64.b16encode(...).decode().lower(), osm.py line 18.
Hex(bytes) ==
    [i \in 1..(2 * Len(bytes)) |->
        LET b == bytes[(i + 1) \div 2]
        IN HexDigits[(IF i % 2 = 1 THEN b \div 16 ELSE b % 16) + 1]]

\* osm.py lines 15-19.
osm_id(min_lon, min_lat, max_lon, max_lat) ==
    Hex(Pack(min_lon)) \o Hex(Pack(min_lat)) \o Hex(Pack(max_lon))
        \o Hex(Pack(max_lat))

\* The next double above d: one unit in the last place of the value passed
\* in (math.nextafter(d, inf)).
MagnitudeUp(d) ==
    IF d.lo + 1 < LowBits THEN [d EXCEPT !.lo = @ + 1]
    ELSE IF d.hi + 1 < FracBits32 THEN [d EXCEPT !.lo = 0, !.hi = @ + 1]
    ELSE [d EXCEPT !.lo = 0, !.hi = 0, !.exp = @ + 1]
MagnitudeDown(d) ==
    IF d.lo > 0 THEN [d EXCEPT !.lo = @ - 1]
    ELSE IF d.hi > 0 THEN [d EXCEPT !.lo = LowBits - 1, !.hi = @ - 1]
    ELSE [d EXCEPT !.lo = LowBits - 1, !.hi = FracBits32 - 1, !.exp = @ - 1]
NextUp(d) == IF d.sign = 0 THEN MagnitudeUp(d) ELSE MagnitudeDown(d)

\* The floats the bounding boxes are drawn from:
\*   37.8056490 and -122.2779586 as Python reads them (low bits set),
\*   37.8125 and -64.0 (exact as 4-byte floats),
\*   a value halfway between two 4-byte floats,
\*   the double just below 64.0.
Doubles ==
    { Double(0, 5, 1521916, 27625230),
      Double(1, 6, 7638608, 316549398),
      Double(0, 5, 1523712, 0),
      Double(1, 6, 0, 0),
      Double(0, 5, 1521917, HalfLow),
      Double(0, 5, FracBits32 - 1, LowBits - 1) }

IdIdle ==
    /\ bbox = <<Double(0, 5, 0, 0), Double(0, 5, 0, 0),
                Double(0, 5, 0, 0), Double(0, 5, 0, 0)>>
    /\ id_a = <<>>
    /\ bbox_b = bbox
    /\ id_b = <<>>
    /\ id_pc = "start"

IdInit ==
    /\ bbox \in [1..4 -> Doubles]
    /\ id_a = <<>>
    /\ bbox_b = bbox
    /\ id_b = <<>>
    /\ id_pc = "start"

\* draw.py line 72: osm.osm_id(xlim[0], ylim[0], xlim[1], ylim[1]).
CallOsmId ==
    /\ id_pc = "start"
    /\ id_a' = osm_id(bbox[1], bbox[2], bbox[3], bbox[4])
    /\ id_pc' = "called"
    /\ UNCHANGED <<bbox, bbox_b, id_b>>
    /\ IdOnly

\* The same call for the box with its k-th float moved to the next double.
CallOsmIdNextTo(k) ==
    /\ id_pc = "called"
    /\ bbox_b' = [bbox EXCEPT ![k] = NextUp(@)]
    /\ id_b' = osm_id(bbox_b'[1], bbox_b'[2], bbox_b'[3], bbox_b'[4])
    /\ id_pc' = "compared"
    /\ UNCHANGED <<bbox, id_a>>
    /\ IdOnly

IdNext ==
    \/ CallOsmId
    \/ \E k \in 1..4 : CallOsmIdNextTo(k)

(***************************************************************************)
(* Claims on osm_id, checked under SpecId                                  *)
(***************************************************************************)
\* C10: osm_id is injective on its four floats: moving any one of them by
\* the smallest representable increment of the value passed in gives a
\* different identity, so two different boxes never share a cache file.
C10_IdentityInjective ==
    (id_pc = "compared" /\ bbox_b # bbox) => id_b # id_a

Init == TrackInit /\ ParseIdle /\ OverlayIdle /\ ClusterIdle /\ IdIdle
Next == TrackNext
Spec == Init /\ [][Next]_vars

InitParse == TrackIdle /\ ParseInit /\ OverlayIdle /\ ClusterIdle /\ IdIdle
SpecParse == InitParse /\ [][ParseNext]_vars

InitOverlay == TrackIdle /\ ParseIdle /\ OverlayIdle /\ ClusterIdle /\ IdIdle
SpecOverlay == InitOverlay /\ [][OverlayNext]_vars

InitCluster == TrackIdle /\ ParseIdle /\ OverlayIdle /\ ClusterInit /\ IdIdle
SpecCluster == InitCluster /\ [][ClusterNext]_vars

InitId == TrackIdle /\ ParseIdle /\ OverlayIdle /\ ClusterIdle /\ IdInit
SpecId == InitId /\ [][IdNext]_vars

====
